---------------------------- MODULE Spec2Model ----------------------------
(***************************************************************************)
(* A model of the generational slot map SurottoMap<T> (src/src/lib.rs).    *)
(*                                                                         *)
(* The backing Vec<Surotto<T>> is the sequence `inner`; Rust's zero-based  *)
(* slot index i is position i + 1 of the sequence.  A u32 state word is    *)
(* the record [occ, gen]: occ is bit 31 (SUROTTO_OCCUPIED) and gen the low *)
(* 31 bits, so that equality of records is bit-for-bit equality of words.  *)
(* The history variables op and ret name the last call and what it        *)
(* returned; issued, removed and stored are ghost bookkeeping of the keys  *)
(* handed out, the keys removed and the value each slot was last given;    *)
(* freed lists the indices freed by remove and not reused, oldest first.   *)
(*                                                                         *)
(* s_inner is the Vec<V> of a SimpleSurotto<K, V> (src/src/simple/mod.rs), *)
(* s_log the ghost list of the keys it returned with their values, and    *)
(* a_inner the                                                             *)
(* Vec<Option<V>> of a SimpleAssocSurotto<K, V> keyed by the same keys     *)
(* (src/src/simple_assoc/mod.rs).                                          *)
(***************************************************************************)
EXTENDS Integers, Sequences, FiniteSets, TLC

VARIABLES inner, next_free, len, op, ret, issued, removed, stored, freed,
          s_inner, s_log, a_inner

vars == <<inner, next_free, len, op, ret, issued, removed, stored, freed,
          s_inner, s_log, a_inner>>

\* the append-only arena and the associative map beside it
simpleVars == <<s_inner, s_log, a_inner>>

----------------------------------------------------------------------------
(* Bounds of the model. *)

MaxSlots == 3

MaxGen == 1

MaxVal == 2

MaxN == 2

\* values the append-only arena takes
MaxItems == 3

----------------------------------------------------------------------------
(* The u32 state word: 0bSVV....VVV. *)

GEN_MAX == 2147483647

Word(o, g) == [occ |-> o, gen |-> g]

SUROTTO_FREE == Word(0, 0)

SUROTTO_OCCUPIED == Word(1, 0)

\* w | SUROTTO_OCCUPIED
SetOccupied(w) == Word(1, w.gen)

\* w & !SUROTTO_OCCUPIED
ClearOccupied(w) == Word(0, w.gen)

\* w & SUROTTO_OCCUPIED != 0
IsOccupied(w) == w.occ = 1

\* WordInc with the increment left out
WordInc_dropped(w) == w

\* WordInc that stays at the largest generation instead of wrapping
WordInc_saturating(w) ==
  IF w.gen < GEN_MAX THEN Word(w.occ, w.gen + 1) ELSE w

\* w + 1 on the whole 32-bit word, wrapping: a carry out of the low 31 bits
\* goes into bit 31, a carry out of bit 31 is lost.
WordInc(w) ==
  IF w.gen < GEN_MAX THEN Word(w.occ, w.gen + 1)
  ELSE IF w.occ = 0 THEN Word(1, 0)
  ELSE Word(0, 0)

----------------------------------------------------------------------------
(* Values, keys, options. *)

Values == 1..MaxVal

\* MaybeUninit::uninit(), and the storage of a slot whose value was moved out
Uninit == 0

None == <<>>

Some(x) == <<x>>

Key(i, v) == [index |-> i, version |-> v]

Surotto(v, w, nf) == [val |-> v, version |-> w, next_free |-> nf]

Words == {Word(o, g) : o \in {0, 1}, g \in 0..MaxGen}

\* every key a caller may present: issued or forged, current or stale, in
\* range or (the last two) past the end of any array the model builds
AllKeys ==
  {Key(i, w) : i \in 0..(MaxSlots - 1), w \in Words}
    \cup {Key(MaxSlots, SUROTTO_OCCUPIED), Key(MaxSlots, SUROTTO_FREE)}

\* the keys a caller presents to a disjoint borrow
DisjointKeys ==
  {Key(i, Word(1, g)) : i \in 0..(MaxSlots - 1), g \in 0..MaxGen}
    \cup {Key(MaxSlots, SUROTTO_OCCUPIED)}

KeyArrays == UNION {[1..n -> DisjointKeys] : n \in 1..MaxN}

----------------------------------------------------------------------------
(* The map as a value, and its operations as functions over it. *)

SurottoMap(i, nf, l) == [inner |-> i, next_free |-> nf, len |-> l]

new == SurottoMap(<<>>, 0, 0)

\* the two ways the crate can be built: with overflow checks (the default of
\* a debug build) or with wrapping arithmetic (the default of a release
\* build)
Builds == {"checked", "wrapping"}

\* usize is as wide as the target's pointers; 16 bits is the narrowest
USIZE_BITS == 16

USIZE_MAX == 2^USIZE_BITS - 1

ISIZE_MAX == 2^(USIZE_BITS - 1) - 1

\* a - b that never goes below zero
usize_sub_saturating(a, b, build) ==
  IF a >= b THEN Some(a - b) ELSE Some(0)

\* a - b on usize: None stands for the panic "attempt to subtract with
\* overflow"
usize_sub(a, b, build) ==
  IF a >= b THEN Some(a - b)
  ELSE IF build = "checked" THEN None
  ELSE Some(a - b + USIZE_MAX + 1)

\* how a call ends: "ok" with the map it returns, or "panic" or "abort"
\* with no map
Outcome(st, m) == [status |-> st, map |-> m]

\* with_capacity whose slots all carry the grow sentinel as their link
with_capacity_unlinked(capacity, build) ==
  {Outcome("ok",
           SurottoMap([p \in 1..capacity |-> Surotto(Uninit, SUROTTO_FREE, 0)],
                      1, 0))}

\* The loop pushes `capacity - 1` slots, slot i linked to slot i + 1, and
\* one more push adds the last slot with the sentinel.  A Vec holds at most
\* isize::MAX bytes, so fewer than ISIZE_MAX slots: a longer run of pushes
\* ends in the panic "capacity overflow", or earlier in an abort when the
\* allocator gives up.  The result is the set of ways the call can end.
with_capacity(capacity, build) ==
  LET bound == usize_sub(capacity, 1, build)
  IN  IF bound = None THEN {Outcome("panic", None)}
      ELSE IF bound[1] + 1 > ISIZE_MAX
      THEN {Outcome("panic", None), Outcome("abort", None)}
      ELSE {Outcome("ok",
                    SurottoMap([p \in 1..(bound[1] + 1) |->
                                  Surotto(Uninit, SUROTTO_FREE,
                                          IF p <= bound[1] THEN p + 1 ELSE 0)],
                               1, 0))}

is_empty(m) == m.len = 0

big_len(m) == Len(m.inner)

\* validate_key without the test of the occupied bit
validate_key_no_occupied(m, key) ==
  IF key.index < Len(m.inner)
  THEN SetOccupied(m.inner[key.index + 1].version) = key.version
  ELSE FALSE

validate_key(m, key) ==
  IF key.index < Len(m.inner)
  THEN LET surotto == m.inner[key.index + 1]
       IN  SetOccupied(surotto.version) = key.version
           /\ IsOccupied(surotto.version)
  ELSE FALSE

\* insert that reads the slot's version for the key before setting the bit
insert_early_version(m, val) ==
  IF m.next_free = 0
  THEN [map |-> SurottoMap(Append(m.inner, Surotto(val, SUROTTO_OCCUPIED, 0)),
                           m.next_free, m.len + 1),
        ret |-> Key(Len(m.inner), SUROTTO_OCCUPIED)]
  ELSE LET pos == m.next_free - 1
           surotto == m.inner[pos + 1]
       IN  [map |-> SurottoMap([m.inner EXCEPT ![pos + 1] =
                                  Surotto(val, SetOccupied(surotto.version),
                                          surotto.next_free)],
                               surotto.next_free, m.len + 1),
            ret |-> Key(pos, surotto.version)]

\* insert that resets the head instead of following the reused slot's link
insert_forget_link(m, val) ==
  IF m.next_free = 0
  THEN [map |-> SurottoMap(Append(m.inner, Surotto(val, SUROTTO_OCCUPIED, 0)),
                           m.next_free, m.len + 1),
        ret |-> Key(Len(m.inner), SUROTTO_OCCUPIED)]
  ELSE LET pos == m.next_free - 1
           surotto == m.inner[pos + 1]
           version == SetOccupied(surotto.version)
       IN  [map |-> SurottoMap([m.inner EXCEPT ![pos + 1] =
                                  Surotto(val, version, surotto.next_free)],
                               0, m.len + 1),
            ret |-> Key(pos, version)]

\* insert that starts a new generation when it reuses a slot
insert_bump_generation(m, val) ==
  IF m.next_free = 0
  THEN [map |-> SurottoMap(Append(m.inner, Surotto(val, SUROTTO_OCCUPIED, 0)),
                           m.next_free, m.len + 1),
        ret |-> Key(Len(m.inner), SUROTTO_OCCUPIED)]
  ELSE LET pos == m.next_free - 1
           surotto == m.inner[pos + 1]
           version == SetOccupied(WordInc(surotto.version))
       IN  [map |-> SurottoMap([m.inner EXCEPT ![pos + 1] =
                                  Surotto(val, version, surotto.next_free)],
                               surotto.next_free, m.len + 1),
            ret |-> Key(pos, version)]

\* insert that leaves the free-list head on the slot it has just reused
insert_keep_head(m, val) ==
  IF m.next_free = 0
  THEN [map |-> SurottoMap(Append(m.inner, Surotto(val, SUROTTO_OCCUPIED, 0)),
                           m.next_free, m.len + 1),
        ret |-> Key(Len(m.inner), SUROTTO_OCCUPIED)]
  ELSE LET pos == m.next_free - 1
           surotto == m.inner[pos + 1]
           version == SetOccupied(surotto.version)
       IN  [map |-> SurottoMap([m.inner EXCEPT ![pos + 1] =
                                  Surotto(val, version, surotto.next_free)],
                               m.next_free, m.len + 1),
            ret |-> Key(pos, version)]

insert(m, val) ==
  IF m.next_free = 0
  THEN LET pos == Len(m.inner)
       IN  [map |-> SurottoMap(Append(m.inner,
                                      Surotto(val, SUROTTO_OCCUPIED, 0)),
                               m.next_free, m.len + 1),
            ret |-> Key(pos, SUROTTO_OCCUPIED)]
  ELSE LET pos == m.next_free - 1
           surotto == m.inner[pos + 1]
           version == SetOccupied(surotto.version)
       IN  [map |-> SurottoMap([m.inner EXCEPT ![pos + 1] =
                                  Surotto(val, version, surotto.next_free)],
                               surotto.next_free, m.len + 1),
            ret |-> Key(pos, version)]

get(m, key) ==
  IF validate_key(m, key) THEN Some(m.inner[key.index + 1].val) ELSE None

\* get_mut that checks the key and then hands out the first slot's storage
get_mut_first_slot(m, key, v) ==
  IF validate_key(m, key)
  THEN [map |-> [m EXCEPT !.inner[1].val = v], ret |-> Some(0)]
  ELSE [map |-> m, ret |-> None]

\* get_mut followed by the caller's write `*val = v` through the reference
get_mut(m, key, v) ==
  IF validate_key(m, key)
  THEN [map |-> [m EXCEPT !.inner[key.index + 1].val = v],
        ret |-> Some(key.index)]
  ELSE [map |-> m, ret |-> None]

\* remove that frees the slot without a new generation
remove_same_generation(m, key) ==
  IF validate_key(m, key)
  THEN LET surotto == m.inner[key.index + 1]
       IN  [map |-> SurottoMap([m.inner EXCEPT ![key.index + 1] =
                                  Surotto(Uninit,
                                          ClearOccupied(surotto.version),
                                          m.next_free)],
                               key.index + 1, m.len - 1),
            ret |-> Some(surotto.val)]
  ELSE [map |-> m, ret |-> None]

\* remove that forgets to decrement len
remove_keep_len(m, key) ==
  IF validate_key(m, key)
  THEN LET surotto == m.inner[key.index + 1]
       IN  [map |-> SurottoMap([m.inner EXCEPT ![key.index + 1] =
                                  Surotto(Uninit,
                                          ClearOccupied(WordInc(surotto.version)),
                                          m.next_free)],
                               key.index + 1, m.len),
            ret |-> Some(surotto.val)]
  ELSE [map |-> m, ret |-> None]

\* remove that checks the key's index and occupancy but not its stamp
remove_any_stamp(m, key) ==
  IF key.index < Len(m.inner) /\ IsOccupied(m.inner[key.index + 1].version)
  THEN LET surotto == m.inner[key.index + 1]
       IN  [map |-> SurottoMap([m.inner EXCEPT ![key.index + 1] =
                                  Surotto(Uninit,
                                          ClearOccupied(WordInc(surotto.version)),
                                          m.next_free)],
                               key.index + 1, m.len - 1),
            ret |-> Some(surotto.val)]
  ELSE [map |-> m, ret |-> None]

\* remove that moves the head before linking the slot to it
remove_head_first(m, key) ==
  IF validate_key(m, key)
  THEN LET surotto == m.inner[key.index + 1]
       IN  [map |-> SurottoMap([m.inner EXCEPT ![key.index + 1] =
                                  Surotto(Uninit,
                                          ClearOccupied(WordInc(surotto.version)),
                                          key.index + 1)],
                               key.index + 1, m.len - 1),
            ret |-> Some(surotto.val)]
  ELSE [map |-> m, ret |-> None]

\* remove that ends the free list at the slot it frees
remove_unlinked(m, key) ==
  IF validate_key(m, key)
  THEN LET surotto == m.inner[key.index + 1]
       IN  [map |-> SurottoMap([m.inner EXCEPT ![key.index + 1] =
                                  Surotto(Uninit,
                                          ClearOccupied(WordInc(surotto.version)),
                                          0)],
                               key.index + 1, m.len - 1),
            ret |-> Some(surotto.val)]
  ELSE [map |-> m, ret |-> None]

\* remove that gives the last slot of the array back
remove_shrinking(m, key) ==
  IF validate_key(m, key)
  THEN LET surotto == m.inner[key.index + 1]
       IN  IF key.index + 1 = Len(m.inner)
           THEN [map |-> SurottoMap(SubSeq(m.inner, 1, Len(m.inner) - 1),
                                    m.next_free, m.len - 1),
                 ret |-> Some(surotto.val)]
           ELSE [map |-> SurottoMap([m.inner EXCEPT ![key.index + 1] =
                                       Surotto(Uninit,
                                               ClearOccupied(
                                                 WordInc(surotto.version)),
                                               m.next_free)],
                                    key.index + 1, m.len - 1),
                 ret |-> Some(surotto.val)]
  ELSE [map |-> m, ret |-> None]

remove(m, key) ==
  IF validate_key(m, key)
  THEN LET surotto == m.inner[key.index + 1]
       IN  [map |-> SurottoMap([m.inner EXCEPT ![key.index + 1] =
                                  Surotto(Uninit,
                                          ClearOccupied(WordInc(surotto.version)),
                                          m.next_free)],
                               key.index + 1, m.len - 1),
            ret |-> Some(surotto.val)]
  ELSE [map |-> m, ret |-> None]


----------------------------------------------------------------------------
(* The disjoint borrow.  A reference is modelled by the zero-based index   *)
(* of the slot whose value storage it points into.  An unchecked access    *)
(* outside the array is undefined behaviour; the walk reports it as oob.   *)

\* the outcome recorded for a call that touched memory outside the array
UB == <<<<-1>>>>

Walk(m, u, r, o) == [map |-> m, undo_idx |-> u, refs |-> r, oob |-> o]

\* marking loop that accepts a key whose slot is already marked
RECURSIVE get_disjoint_mark_remarking(_, _, _, _)
get_disjoint_mark_remarking(m, keys, i, refs) ==
  IF i = Len(keys) THEN Walk(m, Len(keys), refs, FALSE)
  ELSE IF ~validate_key_no_occupied(m, keys[i + 1])
  THEN Walk(m, i, refs, FALSE)
  ELSE IF i >= Len(m.inner) THEN Walk(m, i, refs, TRUE)
  ELSE get_disjoint_mark_remarking(
         [m EXCEPT !.inner[i + 1].version = ClearOccupied(@)],
         keys, i + 1, Append(refs, i))

\* lib.rs 172-183: for (i, key) in keys.iter().enumerate()
RECURSIVE get_disjoint_mark(_, _, _, _)
get_disjoint_mark(m, keys, i, refs) ==
  IF i = Len(keys) THEN Walk(m, Len(keys), refs, FALSE)
  ELSE IF ~validate_key(m, keys[i + 1]) THEN Walk(m, i, refs, FALSE)
  ELSE IF i >= Len(m.inner) THEN Walk(m, i, refs, TRUE)
  ELSE get_disjoint_mark(
         [m EXCEPT !.inner[i + 1].version = ClearOccupied(@)],
         keys, i + 1, Append(refs, i))

\* lib.rs 184-188: for k in &keys[..undo_idx]
RECURSIVE get_disjoint_undo(_, _, _, _)
get_disjoint_undo(m, keys, j, undo_idx) ==
  IF j = undo_idx THEN m
  ELSE get_disjoint_undo(
         [m EXCEPT !.inner[keys[j + 1].index + 1].version = SetOccupied(@)],
         keys, j + 1, undo_idx)

\* get_disjoint that hands out the references gathered before a failure
get_disjoint_partial(m, keys) ==
  LET w == get_disjoint_mark(m, keys, 0, <<>>)
  IN  [map |-> get_disjoint_undo(w.map, keys, 0, w.undo_idx),
       ret |-> Some(w.refs)]

get_disjoint(m, keys) ==
  LET w == get_disjoint_mark(m, keys, 0, <<>>)
  IN  IF w.oob THEN [map |-> w.map, ret |-> UB]
      ELSE [map |-> get_disjoint_undo(w.map, keys, 0, w.undo_idx),
            ret |-> IF w.undo_idx = Len(keys) THEN Some(w.refs) ELSE None]

\* lib.rs 213-224
RECURSIVE get_disjoint_mut_mark(_, _, _, _)
get_disjoint_mut_mark(m, keys, i, refs) ==
  IF i = Len(keys) THEN Walk(m, Len(keys), refs, FALSE)
  ELSE IF ~validate_key(m, keys[i + 1]) THEN Walk(m, i, refs, FALSE)
  ELSE IF i >= Len(m.inner) THEN Walk(m, i, refs, TRUE)
  ELSE get_disjoint_mut_mark(
         [m EXCEPT !.inner[i + 1].version = ClearOccupied(@)],
         keys, i + 1, Append(refs, i))

\* lib.rs 225-229
RECURSIVE get_disjoint_mut_undo(_, _, _, _)
get_disjoint_mut_undo(m, keys, j, undo_idx) ==
  IF j = undo_idx THEN m
  ELSE get_disjoint_mut_undo(
         [m EXCEPT !.inner[keys[j + 1].index + 1].version = SetOccupied(@)],
         keys, j + 1, undo_idx)

\* get_disjoint_mut that leaves the marks in place
get_disjoint_mut_no_undo(m, keys) ==
  LET w == get_disjoint_mut_mark(m, keys, 0, <<>>)
  IN  IF w.oob THEN [map |-> w.map, ret |-> UB]
      ELSE [map |-> w.map,
            ret |-> IF w.undo_idx = Len(keys) THEN Some(w.refs) ELSE None]

get_disjoint_mut(m, keys) ==
  LET w == get_disjoint_mut_mark(m, keys, 0, <<>>)
  IN  IF w.oob THEN [map |-> w.map, ret |-> UB]
      ELSE [map |-> get_disjoint_mut_undo(w.map, keys, 0, w.undo_idx),
            ret |-> IF w.undo_idx = Len(keys) THEN Some(w.refs) ELSE None]

----------------------------------------------------------------------------
(* The state machine: one action per public operation. *)

Map == SurottoMap(inner, next_free, len)

SetMap(m) ==
  /\ inner' = m.inner
  /\ next_free' = m.next_free
  /\ len' = m.len

Called(name, r) ==
  /\ op' = name
  /\ ret' = r

NoStored == [i \in 0..(MaxSlots - 1) |-> Uninit]

Init ==
  /\ \/ /\ inner = new.inner
        /\ next_free = new.next_free
        /\ len = new.len
        /\ op = "new"
     \/ \E n \in 0..MaxSlots, b \in Builds :
          \E o \in with_capacity(n, b) :
            /\ o.status = "ok"
            /\ inner = o.map.inner
            /\ next_free = o.map.next_free
            /\ len = o.map.len
            /\ op = "with_capacity"
  /\ ret = None
  /\ issued = {}
  /\ removed = {}
  /\ stored = NoStored
  /\ freed = <<>>
  /\ s_inner = <<>>
  /\ s_log = <<>>
  /\ a_inner = <<>>

Insert ==
  \E v \in Values :
    /\ next_free # 0 \/ Len(inner) < MaxSlots
    /\ LET r == insert(Map, v)
       IN  /\ SetMap(r.map)
           /\ Called("insert", r.ret)
           /\ issued' = issued \cup {r.ret}
           /\ stored' = [stored EXCEPT ![r.ret.index] = v]
           /\ freed' = SelectSeq(freed, LAMBDA i : i # r.ret.index)
    /\ UNCHANGED <<removed, simpleVars>>

Get ==
  \E k \in AllKeys :
    /\ Called("get", get(Map, k))
    /\ UNCHANGED <<inner, next_free, len, issued, removed, stored, freed>>
    /\ UNCHANGED simpleVars

GetMut ==
  \E k \in AllKeys, v \in Values :
    LET r == get_mut(Map, k, v)
    IN  /\ SetMap(r.map)
        /\ Called("get_mut", r.ret)
        /\ stored' = IF r.ret # None THEN [stored EXCEPT ![k.index] = v]
                     ELSE stored
        /\ UNCHANGED <<issued, removed, freed, simpleVars>>

Remove ==
  \E k \in AllKeys :
    /\ validate_key(Map, k) => k.version.gen < MaxGen
    /\ LET r == remove(Map, k)
       IN  /\ SetMap(r.map)
           /\ Called("remove", r.ret)
           /\ removed' = IF r.ret # None THEN removed \cup {k} ELSE removed
           /\ stored' = IF r.ret # None THEN [stored EXCEPT ![k.index] = Uninit]
                        ELSE stored
           /\ freed' = IF r.ret # None THEN Append(freed, k.index) ELSE freed
    /\ UNCHANGED <<issued, simpleVars>>

GetDisjoint ==
  \E keys \in KeyArrays :
    LET r == get_disjoint(Map, keys)
    IN  /\ SetMap(r.map)
        /\ Called("get_disjoint", r.ret)
        /\ UNCHANGED <<issued, removed, stored, freed, simpleVars>>

GetDisjointMut ==
  \E keys \in KeyArrays :
    LET r == get_disjoint_mut(Map, keys)
    IN  /\ SetMap(r.map)
        /\ Called("get_disjoint_mut", r.ret)
        /\ UNCHANGED <<issued, removed, stored, freed, simpleVars>>

Next ==
  \/ Insert
  \/ Get
  \/ GetMut
  \/ Remove
  \/ GetDisjoint
  \/ GetDisjointMut

Spec == Init /\ [][Next]_vars

\* the map driven by the single-key operations only
NextBasic ==
  \/ Insert
  \/ Get
  \/ GetMut
  \/ Remove

SpecBasic == Init /\ [][NextBasic]_vars

----------------------------------------------------------------------------
(* Vocabulary of the properties. *)

\* a key is valid: in range, slot occupied, state word equal bit for bit
IsValidKey(m, k) ==
  /\ k.index < Len(m.inner)
  /\ m.inner[k.index + 1].version.occ = 1
  /\ m.inner[k.index + 1].version = k.version

HasRepeat(keys) ==
  \E i, j \in DOMAIN keys : i # j /\ keys[i] = keys[j]

Occupied == {p \in DOMAIN inner : inner[p].version.occ = 1}

SameStateWords(m1, m2) ==
  /\ Len(m1.inner) = Len(m2.inner)
  /\ \A p \in DOMAIN m1.inner : m1.inner[p].version = m2.inner[p].version

SameAnswers(m1, m2) ==
  \A k \in AllKeys :
    /\ validate_key(m1, k) = validate_key(m2, k)
    /\ get(m1, k) = get(m2, k)

----------------------------------------------------------------------------
(* The disjoint borrow: C1 - C3. *)

\* C1: in every reachable map state, a key array that holds the same key at
\* two positions makes get_disjoint and get_disjoint_mut return None.
C1_DisjointSoundness ==
  \A keys \in KeyArrays :
    HasRepeat(keys) =>
      /\ get_disjoint(Map, keys).ret = None
      /\ get_disjoint_mut(Map, keys).ret = None

\* C2: whenever get_disjoint / get_disjoint_mut returns None the map is
\* exactly as before the call: state words, free links, free-list head, len
\* and the answer of get for every key.
C2_DisjointAtomicity ==
  \A keys \in KeyArrays :
    /\ LET r == get_disjoint(Map, keys)
       IN  r.ret = None => r.map = Map /\ SameAnswers(r.map, Map)
    /\ LET r == get_disjoint_mut(Map, keys)
       IN  r.ret = None => r.map = Map /\ SameAnswers(r.map, Map)

\* C3: whenever get_disjoint / get_disjoint_mut returns Some, every slot has
\* the same state word after the call as before it, so validate_key and get
\* answer the same for every key.
C3_DisjointSuccessInvisible ==
  \A keys \in KeyArrays :
    /\ LET r == get_disjoint(Map, keys)
       IN  r.ret # None =>
             SameStateWords(r.map, Map) /\ SameAnswers(r.map, Map)
    /\ LET r == get_disjoint_mut(Map, keys)
       IN  r.ret # None =>
             SameStateWords(r.map, Map) /\ SameAnswers(r.map, Map)

----------------------------------------------------------------------------
(* Single-key operations: C4 - C10. *)

C5_RoundTrip ==
  \A v \in Values :
    LET r == insert(Map, v)
    IN  /\ validate_key(r.map, r.ret)
        /\ get(r.map, r.ret) = Some(v)

\* an insert that reused a freed slot has just acted
C5_Witness ==
  /\ op = "insert"
  /\ ret.version.gen > 0
  /\ Len(inner) > ret.index + 1
  /\ get(Map, ret) # None

C7_LenAccounting ==
  /\ len = Cardinality({k \in issued : get(Map, k) # None})
  /\ len = Cardinality(Occupied)
  /\ is_empty(Map) <=> Cardinality(Occupied) = 0

\* a remove has left some slots occupied and others free
C7_Witness ==
  /\ op = "remove"
  /\ ret # None
  /\ len > 0
  /\ len < Len(inner)

\* C8: for every key, issued or not, validate_key is true exactly when the
\* index is in range, the slot's occupied bit is set and the slot's state
\* word equals key.version bit for bit; get returns Some exactly then.
C8_KeyValidity ==
  \A k \in AllKeys :
    /\ validate_key(Map, k) <=> IsValidKey(Map, k)
    /\ get(Map, k) # None <=> validate_key(Map, k)

\* a valid key, and a forged key that equals a free slot's word bit for bit
C8_Witness ==
  /\ \E k \in AllKeys : validate_key(Map, k)
  /\ \E k \in AllKeys :
       /\ k.index < Len(inner)
       /\ inner[k.index + 1].version = k.version
       /\ k.version.occ = 0
       /\ k.version.gen > 0

\* C9: remove with an invalid key returns None and changes nothing: state
\* words, free links, free-list head, len and array length.
C9_RemoveInvalid ==
  \A k \in AllKeys :
    ~IsValidKey(Map, k) => remove(Map, k) = [map |-> Map, ret |-> None]

\* a remove was refused while the map holds values and stale keys exist
C9_Witness ==
  /\ op = "remove"
  /\ ret = None
  /\ len > 0
  /\ \E k \in removed : inner[k.index + 1].version.occ = 1

\* C10: remove with a valid key k returns the value most recently stored
\* under k, decrements len by 1, keeps the array length, and makes k.index
\* the free-list head with the slot's free link set to the previous head.
C10_RemoveValid ==
  \A k \in AllKeys :
    IsValidKey(Map, k) =>
      LET r == remove(Map, k)
      IN  /\ r.ret = Some(stored[k.index])
          /\ r.map.len = len - 1
          /\ big_len(r.map) = big_len(Map)
          /\ r.map.next_free = k.index + 1
          /\ r.map.inner[k.index + 1].next_free = next_free

\* a remove has pushed a slot on a non-empty free list
C10_Witness ==
  /\ op = "remove"
  /\ ret # None
  /\ next_free # 0
  /\ inner[next_free].next_free # 0

----------------------------------------------------------------------------
(* The free list: C11, C12. *)

\* the zero-based indices met by following the free links from `head`
RECURSIVE FreeWalk(_, _, _)
FreeWalk(m, head, fuel) ==
  IF head = 0 \/ fuel = 0 \/ head > Len(m.inner) THEN <<>>
  ELSE <<head - 1>> \o FreeWalk(m, m.inner[head].next_free, fuel - 1)

FreeChain(m) == FreeWalk(m, m.next_free, Len(m.inner) + 1)

\* C11: while slots freed by remove wait for reuse, the next insert returns
\* the index freed last and does not grow the array, and the free list
\* holds the freed indices in the reverse of the order of their removal, so
\* that m removes followed by m inserts hand them back in that order.
C11_LifoReuse ==
  freed # <<>> =>
    /\ \A v \in Values :
         LET r == insert(Map, v)
         IN  /\ r.ret.index = freed[Len(freed)]
             /\ big_len(r.map) = big_len(Map)
    /\ Len(FreeChain(Map)) >= Len(freed)
    /\ \A j \in 1..Len(freed) :
         FreeChain(Map)[j] = freed[Len(freed) + 1 - j]

\* two slots were freed, an insert took one back and the other still waits
C11_Witness ==
  /\ op = "insert"
  /\ Len(freed) = 1
  /\ \E k \in removed : k.index = ret.index /\ ret.version.gen > 0
  /\ \E k \in removed : k.index = freed[1]

\* C12: with_capacity(n), n >= 1, yields len 0 and n free slots of
\* generation 0 chained in ascending order; while no remove has happened
\* the k-th insert (counting from 0) returns index k with generation 0 and
\* the occupied bit set, leaves the array length alone while a preallocated
\* slot remains, and appends at index n once all n are in use.
C12_WithCapacity ==
  /\ op = "with_capacity" =>
       /\ len = 0
       /\ Len(inner) >= 1
       /\ FreeChain(Map) = [p \in 1..Len(inner) |-> p - 1]
       /\ \A p \in 1..Len(inner) : inner[p].version = SUROTTO_FREE
  /\ removed = {} =>
       /\ len = Cardinality(issued)
       /\ \A v \in Values :
            LET r == insert(Map, v)
            IN  /\ r.ret = Key(len, SUROTTO_OCCUPIED)
                /\ big_len(r.map) = IF len < Len(inner) THEN Len(inner)
                                    ELSE len + 1

\* the second insert into a map preallocated with three slots
C12_Witness ==
  /\ op = "insert"
  /\ removed = {}
  /\ len = 2
  /\ Len(inner) = 3
  /\ ret = Key(1, SUROTTO_OCCUPIED)
  /\ inner[3].version = SUROTTO_FREE

----------------------------------------------------------------------------
(* Invalid keys: C15. *)

\* C15: in every state get, get_mut and remove return None for an invalid
\* key, and get_disjoint and get_disjoint_mut return None for an array that
\* holds at least one key invalid at the time of the call; none of them
\* reaches a slot outside the array.
C15_InvalidIsNone ==
  /\ \A k \in AllKeys :
       ~IsValidKey(Map, k) =>
         /\ get(Map, k) = None
         /\ \A v \in Values : get_mut(Map, k, v).ret = None
         /\ remove(Map, k).ret = None
  /\ \A keys \in KeyArrays :
       (\E i \in DOMAIN keys : ~IsValidKey(Map, keys[i])) =>
         /\ get_disjoint(Map, keys).ret = None
         /\ get_disjoint_mut(Map, keys).ret = None

\* a disjoint borrow was refused on a map whose slots are all free, so that
\* every key of the array was invalid when the call was made
C15_Witness ==
  /\ op = "get_disjoint"
  /\ ret = None
  /\ Len(inner) > 0
  /\ Occupied = {}
  /\ removed # {}

----------------------------------------------------------------------------
(* Iteration: iter.rs, iter_mut.rs, into_iter.rs.  An iterator is the
   position `pos` of its Enumerate adaptor in the slot array; `next` runs
   `find` from there. *)

Item(k, v) == [key |-> k, val |-> v]

Step(i, p) == [item |-> i, pos |-> p]

\* next that takes the slot at the cursor whether it is occupied or not
Iter_next_unfiltered(m, pos) ==
  IF pos >= Len(m.inner) THEN Step(None, pos)
  ELSE LET surotto == m.inner[pos + 1]
       IN  Step(Some(Item(Key(pos, surotto.version), surotto.val)), pos + 1)

\* Iter::next: the value is read through a shared reference
RECURSIVE Iter_next(_, _)
Iter_next(m, pos) ==
  IF pos >= Len(m.inner) THEN Step(None, pos)
  ELSE LET surotto == m.inner[pos + 1]
       IN  IF IsOccupied(surotto.version)
           THEN Step(Some(Item(Key(pos, surotto.version), surotto.val)),
                     pos + 1)
           ELSE Iter_next(m, pos + 1)

\* IterMut::next: the item carries the position of the slot its `&mut T`
\* points into
RECURSIVE IterMut_next(_, _)
IterMut_next(m, pos) ==
  IF pos >= Len(m.inner) THEN Step(None, pos)
  ELSE LET surotto == m.inner[pos + 1]
       IN  IF IsOccupied(surotto.version)
           THEN Step(Some(Item(Key(pos, surotto.version), pos)), pos + 1)
           ELSE IterMut_next(m, pos + 1)

\* the items of m.iter() taken until next returns None
RECURSIVE Iter_collect(_, _)
Iter_collect(m, pos) ==
  LET s == Iter_next(m, pos)
  IN  IF s.item = None THEN <<>>
      ELSE <<s.item[1]>> \o Iter_collect(m, s.pos)

iter(m) == Iter_collect(m, 0)

RECURSIVE IterMut_collect(_, _)
IterMut_collect(m, pos) ==
  LET s == IterMut_next(m, pos)
  IN  IF s.item = None THEN <<>>
      ELSE <<s.item[1]>> \o IterMut_collect(m, s.pos)

\* m.iter_mut() taken to its end, the caller writing v through the
\* reference of the j-th item (j = 0: no write)
iter_mut(m, j, v) ==
  LET items == IterMut_collect(m, 0)
  IN  [map |-> IF j \in DOMAIN items
               THEN [m EXCEPT !.inner[items[j].val + 1].val = v]
               ELSE m,
       ret |-> items]

\* Surotto::drop: the values whose destructor runs, tagged with their slot
Surotto_drop(pos, surotto) ==
  IF IsOccupied(surotto.version) THEN <<Item(pos, surotto.val)>> ELSE <<>>

Taken(i, p, d) == [item |-> i, pos |-> p, dropped |-> d]

\* IntoIter::next: find moves the slots out of the array one by one and
\* drops those the predicate rejects; the slot it accepts is read and then
\* forgotten
RECURSIVE IntoIter_next(_, _, _)
IntoIter_next(m, pos, dropped) ==
  IF pos >= Len(m.inner) THEN Taken(None, pos, dropped)
  ELSE LET surotto == m.inner[pos + 1]
       IN  IF IsOccupied(surotto.version)
           THEN Taken(Some(Item(Key(pos, surotto.version), surotto.val)),
                      pos + 1, dropped)
           ELSE IntoIter_next(m, pos + 1,
                              dropped \o Surotto_drop(pos, surotto))

\* dropping the iterator drops the slots still in the array
RECURSIVE IntoIter_drop(_, _)
IntoIter_drop(m, pos) ==
  IF pos >= Len(m.inner) THEN <<>>
  ELSE Surotto_drop(pos, m.inner[pos + 1]) \o IntoIter_drop(m, pos + 1)

Consumed(y, d) == [yielded |-> y, dropped |-> d]

\* a caller taking at most n items of m.into_iter() and then dropping it
RECURSIVE IntoIter_take(_, _, _, _, _)
IntoIter_take(m, n, pos, yielded, dropped) ==
  IF n = 0
  THEN Consumed(yielded, dropped \o IntoIter_drop(m, pos))
  ELSE LET t == IntoIter_next(m, pos, dropped)
       IN  IF t.item = None
           THEN Consumed(yielded, t.dropped \o IntoIter_drop(m, t.pos))
           ELSE IntoIter_take(m, n - 1, t.pos, Append(yielded, t.item[1]),
                              t.dropped)

into_iter(m, n) == IntoIter_take(m, n, 0, <<>>, <<>>)

\* the map has not been moved into a consuming iterator
Alive == op # "into_iter"

Iter ==
  /\ Alive
  /\ Called("iter", iter(Map))
  /\ UNCHANGED <<inner, next_free, len, issued, removed, stored, freed>>
  /\ UNCHANGED simpleVars

IterMut ==
  /\ Alive
  /\ \E j \in 0..MaxSlots, v \in Values :
       LET r == iter_mut(Map, j, v)
       IN  /\ SetMap(r.map)
           /\ Called("iter_mut", r.ret)
           /\ stored' = IF j \in DOMAIN r.ret
                        THEN [stored EXCEPT ![r.ret[j].val] = v]
                        ELSE stored
  /\ UNCHANGED <<issued, removed, freed, simpleVars>>

\* the map is moved into the iterator: nothing of it is left afterwards
IntoIter ==
  /\ Alive
  /\ \E n \in 0..MaxSlots :
       /\ Called("into_iter", into_iter(Map, n))
       /\ SetMap(SurottoMap(<<>>, 0, 0))
  /\ stored' = NoStored
  /\ freed' = <<>>
  /\ UNCHANGED <<issued, removed, simpleVars>>

NextIter ==
  \/ Alive /\ Insert
  \/ Alive /\ Remove
  \/ Iter
  \/ IterMut
  \/ IntoIter

SpecIter == Init /\ [][NextIter]_vars

\* C13: in every state reached by inserts and removes, iter and iter_mut
\* yield exactly one item per occupied slot and none for a free slot, in
\* strictly ascending index order, so the number of items equals len; each
\* item's key is valid and its value is the one stored under that key.
C13_KeyedIteration ==
  /\ LET items == iter(Map)
     IN  /\ Len(items) = len
         /\ \A i, j \in DOMAIN items :
              i < j => items[i].key.index < items[j].key.index
         /\ \A p \in DOMAIN inner :
              (p \in Occupied) <=>
                \E i \in DOMAIN items : items[i].key.index = p - 1
         /\ \A i \in DOMAIN items :
              /\ IsValidKey(Map, items[i].key)
              /\ get(Map, items[i].key) = Some(items[i].val)
  /\ \A w \in 0..MaxSlots, v \in Values :
       LET r == iter_mut(Map, w, v)
           items == r.ret
       IN  /\ Len(items) = len
           /\ \A i, j \in DOMAIN items :
                i < j => items[i].key.index < items[j].key.index
           /\ \A p \in DOMAIN inner :
                (p \in Occupied) <=>
                  \E i \in DOMAIN items : items[i].key.index = p - 1
           /\ \A i \in DOMAIN items :
                /\ IsValidKey(Map, items[i].key)
                /\ items[i].val = items[i].key.index
                /\ get(r.map, items[i].key) =
                     IF i = w THEN Some(v) ELSE get(Map, items[i].key)

\* iter ran over three slots of which the middle one was freed by a remove
C13_Witness ==
  /\ op = "iter"
  /\ Len(inner) = 3
  /\ Len(ret) = 2
  /\ ret[1].key.index = 0
  /\ ret[2].key.index = 2
  /\ \E k \in removed : k.index = 1

\* how often the value of slot q leaves the map through c: by being
\* yielded, or by a destructor run
Evacuations(c, q) ==
  Cardinality({i \in DOMAIN c.yielded : c.yielded[i].key.index = q})
  + Cardinality({i \in DOMAIN c.dropped : c.dropped[i].key = q})

\* C14: into_iter, taken for any number of items and then dropped, yields in
\* ascending index order the occupied slots' pairs with the key insert
\* issued and the value stored under it, all of them when taken to its end,
\* and every value stored in the map is yielded or destructed exactly once:
\* none twice, none never, and no slot without a value is touched.
C14_ConsumeOnce ==
  \A n \in 0..MaxSlots :
    LET c == into_iter(Map, n)
    IN  /\ \A i, j \in DOMAIN c.yielded :
             i < j => c.yielded[i].key.index < c.yielded[j].key.index
        /\ \A i \in DOMAIN c.yielded :
             /\ c.yielded[i].key \in issued \ removed
             /\ c.yielded[i].val = stored[c.yielded[i].key.index]
        /\ n >= Len(inner) =>
             \A p \in Occupied :
               \E i \in DOMAIN c.yielded : c.yielded[i].key.index = p - 1
        /\ \A i \in DOMAIN c.dropped :
             c.dropped[i].val = stored[c.dropped[i].key]
        /\ \A q \in 0..(MaxSlots - 1) :
             Evacuations(c, q) = IF stored[q] # Uninit THEN 1 ELSE 0

----------------------------------------------------------------------------
(* Generation wraparound: C16.  The map after slot 0 has gone through
   GEN_MAX - 1 cycles of insert and remove and holds a value again; of the
   keys issued and removed on the way the history variables keep those of
   the generations in WrapGens.  Arithmetic wraps, as in a build without
   overflow checks. *)

WrapGens == {0, 1, GEN_MAX - 1, GEN_MAX}

WrapKeys ==
  {Key(i, Word(1, g)) : i \in 0..(MaxSlots - 1), g \in WrapGens}

InitWrap ==
  \E v \in Values :
    /\ inner = <<Surotto(v, Word(1, GEN_MAX - 1), 0)>>
    /\ next_free = 0
    /\ len = 1
    /\ op = "insert"
    /\ ret = Key(0, Word(1, GEN_MAX - 1))
    /\ issued = {Key(0, Word(1, g)) : g \in {0, 1, GEN_MAX - 1}}
    /\ removed = {Key(0, Word(1, g)) : g \in {0, 1}}
    /\ stored = [NoStored EXCEPT ![0] = v]
    /\ freed = <<>>
    /\ s_inner = <<>>
    /\ s_log = <<>>
    /\ a_inner = <<>>

\* remove around the wrap: a slot is followed from GEN_MAX - 1 over GEN_MAX
\* and 0 up to generation 1
WrapRemove ==
  \E k \in WrapKeys :
    /\ validate_key(Map, k) =>
         \/ k.version.gen >= GEN_MAX - 1
         \/ k.version.gen = 0
    /\ LET r == remove(Map, k)
       IN  /\ SetMap(r.map)
           /\ Called("remove", r.ret)
           /\ removed' = IF r.ret # None THEN removed \cup {k} ELSE removed
           /\ stored' = IF r.ret # None THEN [stored EXCEPT ![k.index] = Uninit]
                        ELSE stored
           /\ freed' = IF r.ret # None THEN Append(freed, k.index) ELSE freed
    /\ UNCHANGED <<issued, simpleVars>>

WrapGet ==
  \E k \in WrapKeys :
    /\ Called("get", get(Map, k))
    /\ UNCHANGED <<inner, next_free, len, issued, removed, stored, freed>>
    /\ UNCHANGED simpleVars

NextWrap ==
  \/ Insert
  \/ WrapRemove
  \/ WrapGet

SpecWrap == InitWrap /\ [][NextWrap]_vars

\* C16: with wrapping arithmetic, remove of a key at the largest generation
\* adds 1 to a state word that is all ones, the carry out of the occupied
\* bit is lost and the slot is left free at generation 0; the next insert
\* then returns the slot's key of generation 0, and whenever insert returns
\* a key that was removed before, get with that key returns the new value.
C16_Wraparound ==
  /\ \A p \in DOMAIN inner :
       inner[p].version = Word(1, GEN_MAX) =>
         LET old == Key(p - 1, Word(1, GEN_MAX))
             r == remove(Map, old)
         IN  /\ WordInc(inner[p].version) = Word(0, 0)
             /\ r.ret = Some(inner[p].val)
             /\ r.map.inner[p].version = SUROTTO_FREE
             /\ \A v \in Values :
                  LET s == insert(r.map, v)
                  IN  /\ s.ret = Key(p - 1, SUROTTO_OCCUPIED)
                      /\ get(s.map, s.ret) = Some(v)
  /\ (op = "insert" /\ ret \in removed) =>
       /\ stored[ret.index] # Uninit
       /\ get(Map, ret) = Some(stored[ret.index])

\* insert has returned the key of generation 0 that was issued and removed
\* a full turn of the generation counter earlier, and it is valid again
C16_Witness ==
  /\ op = "insert"
  /\ ret = Key(0, SUROTTO_OCCUPIED)
  /\ ret \in removed
  /\ Key(0, Word(1, GEN_MAX)) \in removed
  /\ get(Map, ret) # None

----------------------------------------------------------------------------
(* Construction with a requested capacity: C17.  The program starts with no
   map and calls with_capacity; only a call that returns leaves a map to
   work with. *)

InitCap ==
  /\ inner = <<>>
  /\ next_free = 0
  /\ len = 0
  /\ op = "start"
  /\ ret = None
  /\ issued = {}
  /\ removed = {}
  /\ stored = NoStored
  /\ freed = <<>>
  /\ s_inner = <<>>
  /\ s_log = <<>>
  /\ a_inner = <<>>

WithCapacity ==
  /\ op = "start"
  /\ \E n \in 0..MaxSlots, b \in Builds :
       \E o \in with_capacity(n, b) :
         IF o.status = "ok"
         THEN /\ SetMap(o.map)
              /\ Called("with_capacity", None)
         ELSE /\ Called(o.status, None)
              /\ UNCHANGED <<inner, next_free, len>>
  /\ UNCHANGED <<issued, removed, stored, freed, simpleVars>>

\* the constructor has returned a map
Constructed == op \notin {"start", "panic", "abort"}

NextCap ==
  \/ WithCapacity
  \/ Constructed /\ Insert
  \/ Constructed /\ Get
  \/ Constructed /\ Remove

SpecCap == InitCap /\ [][NextCap]_vars

\* C17: for capacity 0 the loop bound capacity - 1 underflows: under
\* checked arithmetic the subtraction is an arithmetic error, under wrapping
\* arithmetic it is the largest usize; in neither build does with_capacity(0)
\* return, so no map, empty or not, comes out of it and no operation follows.
C17_ZeroCapacity ==
  /\ usize_sub(0, 1, "checked") = None
  /\ usize_sub(0, 1, "wrapping") = Some(USIZE_MAX)
  /\ \A b \in Builds : \A o \in with_capacity(0, b) : o.status # "ok"
  /\ op \in {"panic", "abort"} =>
       /\ inner = <<>>
       /\ len = 0
       /\ issued = {}
       /\ ~ENABLED NextCap
  /\ op = "with_capacity" => Len(inner) >= 1

\* with_capacity(0) in a build with wrapping arithmetic ran out of memory
C17_Witness ==
  /\ op = "abort"
  /\ inner = <<>>
  /\ \E o \in with_capacity(0, "wrapping") : o.status = "abort"

----------------------------------------------------------------------------
(* SimpleSurotto (simple/mod.rs, simple/key.rs): the append-only arena.
   s_inner is its Vec<V>; s_log records, for each insert in order, the key
   the call returned and the value now expected under it. *)

\* SimpleKeyData::new(idx).unwrap(): every usize but the largest; None
\* stands for the panic of unwrap
SimpleKey_new(idx) ==
  IF idx = USIZE_MAX THEN None ELSE Some([nonmax |-> idx])

SimpleKey_idx(key) == key.nonmax

SimpleSurotto_new == <<>>

SimpleSurotto_len(vec) == Len(vec)

Result(st, vec, r) == [status |-> st, inner |-> vec, ret |-> r]

\* insert that takes the key after the push
SimpleSurotto_insert_late_key(vec, value) ==
  LET pushed == Append(vec, value)
      key == SimpleKey_new(Len(pushed))
  IN  IF key = None THEN Result("panic", vec, None)
      ELSE Result("ok", pushed, key[1])

SimpleSurotto_insert(vec, value) ==
  LET key == SimpleKey_new(Len(vec))
  IN  IF key = None THEN Result("panic", vec, None)
      ELSE Result("ok", Append(vec, value), key[1])

\* f is the caller's closure, a function from keys to values
SimpleSurotto_insert_with(vec, f) ==
  LET key == SimpleKey_new(Len(vec))
  IN  IF key = None THEN Result("panic", vec, None)
      ELSE Result("ok", Append(vec, f[key[1]]), key[1])

\* get_unchecked: outside the array the behaviour is undefined
SimpleSurotto_get(vec, key) ==
  IF SimpleKey_idx(key) < Len(vec)
  THEN Result("ok", vec, vec[SimpleKey_idx(key) + 1])
  ELSE Result("ub", vec, None)

\* get_mut followed by the caller's write `*val = v`
SimpleSurotto_get_mut(vec, key, v) ==
  IF SimpleKey_idx(key) < Len(vec)
  THEN Result("ok", [vec EXCEPT ![SimpleKey_idx(key) + 1] = v],
              SimpleKey_idx(key))
  ELSE Result("ub", vec, None)

SimpleKeys == {[nonmax |-> i] : i \in 0..MaxItems}

\* the closures handed to insert_with: constant ones and one that derives
\* the value from the key
Closures ==
  {[k \in SimpleKeys |-> v] : v \in Values}
    \cup {[k \in SimpleKeys |-> (k.nonmax % MaxVal) + 1]}

\* the keys this arena has handed out
IssuedSimpleKeys == {s_log[i].key : i \in DOMAIN s_log}

\* the process has not been aborted
Running == op # "abort"

InitSimple ==
  /\ inner = new.inner
  /\ next_free = new.next_free
  /\ len = new.len
  /\ op = "new"
  /\ ret = None
  /\ issued = {}
  /\ removed = {}
  /\ stored = NoStored
  /\ freed = <<>>
  /\ s_inner = SimpleSurotto_new
  /\ s_log = <<>>
  /\ a_inner = <<>>

mapVars == <<inner, next_free, len, issued, removed, stored, freed>>

SimpleInsert ==
  /\ Running
  /\ Len(s_inner) < MaxItems
  /\ \E v \in Values :
       LET r == SimpleSurotto_insert(s_inner, v)
       IN  /\ s_inner' = r.inner
           /\ Called("simple_insert", r.ret)
           /\ s_log' = IF r.status = "ok" THEN Append(s_log, Item(r.ret, v))
                       ELSE s_log
  /\ UNCHANGED <<mapVars, a_inner>>

SimpleInsertWith ==
  /\ Running
  /\ Len(s_inner) < MaxItems
  /\ \E f \in Closures :
       LET r == SimpleSurotto_insert_with(s_inner, f)
       IN  /\ s_inner' = r.inner
           /\ Called("simple_insert_with", r.ret)
           /\ s_log' = IF r.status = "ok"
                       THEN Append(s_log, Item(r.ret, f[r.ret]))
                       ELSE s_log
  /\ UNCHANGED <<mapVars, a_inner>>

\* keys are typed: only a key this arena issued can be passed in
SimpleGet ==
  /\ Running
  /\ \E k \in IssuedSimpleKeys :
       LET r == SimpleSurotto_get(s_inner, k)
       IN  Called("simple_get", Some(r.ret))
  /\ UNCHANGED <<mapVars, simpleVars>>

SimpleGetMut ==
  /\ Running
  /\ \E k \in IssuedSimpleKeys, v \in Values :
       LET r == SimpleSurotto_get_mut(s_inner, k, v)
       IN  /\ s_inner' = r.inner
           /\ Called("simple_get_mut", Some(r.ret))
           /\ s_log' = [i \in DOMAIN s_log |->
                          IF s_log[i].key = k THEN Item(k, v) ELSE s_log[i]]
  /\ UNCHANGED <<mapVars, a_inner>>

----------------------------------------------------------------------------
(* SimpleAssocSurotto (simple_assoc/mod.rs): values associated with the
   keys of a SimpleSurotto.  a_inner is its Vec<Option<V>>. *)

SimpleAssocSurotto_new == <<>>

\* Vec::get, then Option::as_ref
SimpleAssocSurotto_get(vec, key) ==
  IF SimpleKey_idx(key) < Len(vec) THEN vec[SimpleKey_idx(key) + 1] ELSE None

\* what get_unchecked_mut(key).replace(value) can do when key is outside
\* the array: the process is aborted (the precondition check of a build
\* with debug assertions, or a fault), or the write lands outside the
\* array, which keeps its length, and the value read back as the old one is
\* arbitrary
StrayReplace(vec) ==
  {Result("abort", vec, None)}
    \cup {Result("ub", vec, r) : r \in {None} \cup {Some(v) : v \in Values}}

\* The result is the set of ways the call can end.  `extend` reserves room
\* for all missing slots before it writes one, so a count no Vec can hold
\* ends in the panic "capacity overflow" with the array untouched.
SimpleAssocSurotto_insert(vec, k, value, build) ==
  LET key == SimpleKey_idx(k)
      missing_slots == usize_sub(key, Len(vec), build)
  IN  IF missing_slots = None THEN {Result("panic", vec, None)}
      ELSE IF Len(vec) + missing_slots[1] > ISIZE_MAX
      THEN {Result("panic", vec, None)}
      ELSE LET extended == vec \o [i \in 1..missing_slots[1] |-> None]
           IN  IF key < Len(extended)
               THEN {Result("ok", [extended EXCEPT ![key + 1] = Some(value)],
                            extended[key + 1])}
               ELSE StrayReplace(extended)

AssocInsert ==
  /\ Running
  /\ \E k \in IssuedSimpleKeys, v \in Values, b \in Builds :
       \E o \in SimpleAssocSurotto_insert(a_inner, k, v, b) :
         /\ a_inner' = o.inner
         /\ Called(IF o.status = "ok" THEN "assoc_insert" ELSE o.status, o.ret)
  /\ UNCHANGED <<mapVars, s_inner, s_log>>

AssocGet ==
  /\ Running
  /\ \E k \in IssuedSimpleKeys :
       Called("assoc_get", SimpleAssocSurotto_get(a_inner, k))
  /\ UNCHANGED <<mapVars, simpleVars>>

NextSimple ==
  \/ SimpleInsert
  \/ SimpleInsertWith
  \/ SimpleGet
  \/ SimpleGetMut
  \/ AssocInsert
  \/ AssocGet

SpecSimple == InitSimple /\ [][NextSimple]_vars

\* C18: the k-th insert or insert_with of the arena (counting from 0) has
\* returned the key with idx k, so no key was issued twice; every issued key
\* has idx < len, get and get_mut with it stay inside the array, and get
\* returns the value inserted (or last written) under it; the next insert
\* returns idx len.
C18_AppendOnly ==
  /\ Len(s_log) = SimpleSurotto_len(s_inner)
  /\ \A i \in DOMAIN s_log :
       LET k == s_log[i].key
       IN  /\ SimpleKey_idx(k) = i - 1
           /\ SimpleKey_idx(k) < SimpleSurotto_len(s_inner)
           /\ SimpleSurotto_get(s_inner, k) =
                Result("ok", s_inner, s_log[i].val)
           /\ \A v \in Values :
                SimpleSurotto_get_mut(s_inner, k, v).status = "ok"
  /\ \A v \in Values :
       LET r == SimpleSurotto_insert(s_inner, v)
       IN  /\ r.status = "ok"
           /\ SimpleKey_idx(r.ret) = Len(s_log)
           /\ r.ret \notin IssuedSimpleKeys
  /\ \A f \in Closures :
       LET r == SimpleSurotto_insert_with(s_inner, f)
       IN  /\ r.status = "ok"
           /\ SimpleKey_idx(r.ret) = Len(s_log)
           /\ r.ret \notin IssuedSimpleKeys
           /\ SimpleSurotto_get(r.inner, r.ret).ret = f[r.ret]

\* the third value went in through insert_with and got the key with idx 2
C18_Witness ==
  /\ op = "simple_insert_with"
  /\ Len(s_log) = 3
  /\ SimpleKey_idx(ret) = 2
  /\ SimpleSurotto_get(s_inner, ret).ret = s_log[3].val

\* C19: insert(key, v) of the associative map with key.idx() at or beyond
\* the array length ends normally, in either build, with the array grown to
\* hold the slot at key.idx(): get(key) is Some(v) afterwards and every
\* backfilled slot is None.
C19_InsertBackfill ==
  \A k \in IssuedSimpleKeys, v \in Values, b \in Builds :
    SimpleKey_idx(k) >= Len(a_inner) =>
      \A o \in SimpleAssocSurotto_insert(a_inner, k, v, b) :
        /\ o.status = "ok"
        /\ Len(o.inner) = SimpleKey_idx(k) + 1
        /\ SimpleAssocSurotto_get(o.inner, k) = Some(v)
        /\ \A j \in (Len(a_inner) + 1)..SimpleKey_idx(k) : o.inner[j] = None

\* C20: insert(key, v) of the associative map ends normally for every key,
\* below the array length or not, without an underflow of key.idx() - len;
\* it returns what get(key) gave before the call (None, or the old value),
\* and get(key) is Some(v) afterwards.
C20_InsertReturn ==
  \A k \in IssuedSimpleKeys, v \in Values, b \in Builds :
    /\ SimpleKey_idx(k) < Len(a_inner) =>
         usize_sub(SimpleKey_idx(k), Len(a_inner), "wrapping")[1]
           = SimpleKey_idx(k) - Len(a_inner)
    /\ \A o \in SimpleAssocSurotto_insert(a_inner, k, v, b) :
         /\ o.status = "ok"
         /\ o.ret = SimpleAssocSurotto_get(a_inner, k)
         /\ SimpleAssocSurotto_get(o.inner, k) = Some(v)

----------------------------------------------------------------------------
(* The entry API of SimpleAssocSurotto (simple_assoc/mod.rs 107-122 and
   229-379). *)

SimpleAssocSurotto_contains_key(vec, key) ==
  IF SimpleKey_idx(key) < Len(vec)
  THEN vec[SimpleKey_idx(key) + 1] # None
  ELSE FALSE

Entry(kind, k) == [kind |-> kind, key |-> k]

SimpleAssocSurotto_entry(vec, key) ==
  IF SimpleAssocSurotto_contains_key(vec, key)
  THEN Entry("Occupied", key)
  ELSE Entry("Vacant", key)

\* get_unchecked_mut(key).as_mut().unwrap_unchecked(): the reference is the
\* index of the slot it points into
OccupiedEntry_into_mut(vec, e) ==
  IF SimpleAssocSurotto_contains_key(vec, e.key)
  THEN {Result("ok", vec, Some(SimpleKey_idx(e.key)))}
  ELSE {Result("abort", vec, None), Result("ub", vec, None)}

\* what get_unchecked_mut(key).insert(value) can do when key is outside the
\* array: the process is aborted, or the write lands outside the array,
\* which keeps its length, and the reference returned points there
StrayInsert(vec) ==
  {Result("abort", vec, None), Result("ub", vec, None)}

VacantEntry_insert(vec, e, value, build) ==
  LET key == SimpleKey_idx(e.key)
      missing_slots == usize_sub(key, Len(vec), build)
  IN  IF missing_slots = None THEN {Result("panic", vec, None)}
      ELSE IF Len(vec) + missing_slots[1] > ISIZE_MAX
      THEN {Result("panic", vec, None)}
      ELSE LET extended == vec \o [i \in 1..missing_slots[1] |-> None]
           IN  IF key < Len(extended)
               THEN {Result("ok", [extended EXCEPT ![key + 1] = Some(value)],
                            Some(key))}
               ELSE StrayInsert(extended)

\* f is the caller's closure FnOnce() -> V, given by the value it returns
Entry_or_insert_with(vec, e, f, build) ==
  IF e.kind = "Occupied" THEN OccupiedEntry_into_mut(vec, e)
  ELSE VacantEntry_insert(vec, e, f, build)

Entry_or_insert(vec, e, val, build) == Entry_or_insert_with(vec, e, val, build)

\* V::default() of the value type
V_default == CHOOSE v \in Values : \A w \in Values : v <= w

Entry_or_default(vec, e, build) ==
  Entry_or_insert_with(vec, e, V_default, build)

AssocOrInsert ==
  /\ Running
  /\ \E k \in IssuedSimpleKeys, v \in Values, b \in Builds :
       \E o \in Entry_or_insert(a_inner, SimpleAssocSurotto_entry(a_inner, k),
                                v, b) :
         /\ a_inner' = o.inner
         /\ Called(IF o.status = "ok" THEN "or_insert" ELSE o.status, o.ret)
  /\ UNCHANGED <<mapVars, s_inner, s_log>>

AssocOrDefault ==
  /\ Running
  /\ \E k \in IssuedSimpleKeys, b \in Builds :
       \E o \in Entry_or_default(a_inner, SimpleAssocSurotto_entry(a_inner, k),
                                 b) :
         /\ a_inner' = o.inner
         /\ Called(IF o.status = "ok" THEN "or_default" ELSE o.status, o.ret)
  /\ UNCHANGED <<mapVars, s_inner, s_log>>

AssocContainsKey ==
  /\ Running
  /\ \E k \in IssuedSimpleKeys :
       Called("contains_key",
              Some(SimpleAssocSurotto_contains_key(a_inner, k)))
  /\ UNCHANGED <<mapVars, simpleVars>>

NextEntry ==
  \/ SimpleInsert
  \/ SimpleInsertWith
  \/ SimpleGetMut
  \/ AssocInsert
  \/ AssocOrInsert
  \/ AssocOrDefault
  \/ AssocContainsKey

SpecEntry == InitSimple /\ [][NextEntry]_vars

\* C21: entry(key).or_insert(v), or_insert_with and or_default end normally
\* for every key, in either build, without an out-of-bounds access or an
\* underflow: a value already present is kept, otherwise the given value
\* is stored, and contains_key(key) is true afterwards.
C21_EntryOrInsert ==
  \A k \in IssuedSimpleKeys, b \in Builds :
    LET e == SimpleAssocSurotto_entry(a_inner, k)
        before == SimpleAssocSurotto_get(a_inner, k)
    IN  /\ \A v \in Values :
             \A o \in Entry_or_insert(a_inner, e, v, b)
                        \cup Entry_or_insert_with(a_inner, e, v, b) :
               /\ o.status = "ok"
               /\ SimpleAssocSurotto_contains_key(o.inner, k)
               /\ SimpleAssocSurotto_get(o.inner, k) =
                    IF before # None THEN before ELSE Some(v)
        /\ \A o \in Entry_or_default(a_inner, e, b) :
             /\ o.status = "ok"
             /\ SimpleAssocSurotto_contains_key(o.inner, k)
             /\ SimpleAssocSurotto_get(o.inner, k) =
                  IF before # None THEN before ELSE Some(V_default)

----------------------------------------------------------------------------
(* Disjoint borrows, continued: C22 - C24, C26, C30. *)

\* all keys of the array are valid and no two name the same slot
AllValidAndApart(m, keys) ==
  /\ \A i \in DOMAIN keys : IsValidKey(m, keys[i])
  /\ \A i, j \in DOMAIN keys : i # j => keys[i].index # keys[j].index

\* the slot holds an initialized value
Initialized(m, i) == i < Len(m.inner) /\ m.inner[i + 1].val # Uninit

\* C22: when get_disjoint / get_disjoint_mut returns Some, the reference at
\* every position i points into the slot keys[i].index, the slot whose value
\* get(keys[i]) returns.
C22_DisjointRefs ==
  \A keys \in KeyArrays :
    /\ LET r == get_disjoint(Map, keys)
       IN  (r.ret # None /\ r.ret # UB) =>
             \A i \in DOMAIN keys : r.ret[1][i] = keys[i].index
    /\ LET r == get_disjoint_mut(Map, keys)
       IN  (r.ret # None /\ r.ret # UB) =>
             \A i \in DOMAIN keys : r.ret[1][i] = keys[i].index

\* C23: in the marking walk the slot cleared for the key at position i is
\* slot keys[i].index, and the slots cleared by the walk are the slots of
\* keys[0..undo_idx], whose bit the second loop sets again.
C23_MarkedIsRestored ==
  \A keys \in KeyArrays :
    /\ LET w == get_disjoint_mark(Map, keys, 0, <<>>)
       IN  /\ \A i \in DOMAIN w.refs : w.refs[i] = keys[i].index
           /\ {w.refs[i] : i \in DOMAIN w.refs} =
                {keys[j].index : j \in 1..w.undo_idx}
    /\ LET w == get_disjoint_mut_mark(Map, keys, 0, <<>>)
       IN  /\ \A i \in DOMAIN w.refs : w.refs[i] = keys[i].index
           /\ {w.refs[i] : i \in DOMAIN w.refs} =
                {keys[j].index : j \in 1..w.undo_idx}

\* C24: a key array whose keys are all valid and name pairwise different
\* slots makes get_disjoint and get_disjoint_mut return Some, whatever the
\* order of the keys.
C24_DisjointCompleteness ==
  \A keys \in KeyArrays :
    AllValidAndApart(Map, keys) =>
      /\ get_disjoint(Map, keys).ret \notin {None, UB}
      /\ get_disjoint_mut(Map, keys).ret \notin {None, UB}

\* C26: no operation reads, references or destructs the value storage of a
\* slot that holds no initialized value: get, get_mut and remove touch the
\* slot of the key only when it does, every reference of a successful
\* disjoint borrow points into such a slot, and iteration yields and
\* destructs only such slots.
C26_ValueStorage ==
  /\ \A k \in AllKeys :
       /\ get(Map, k) # None => Initialized(Map, k.index)
       /\ \A v \in Values :
            get_mut(Map, k, v).ret # None => Initialized(Map, k.index)
       /\ remove(Map, k).ret # None => Initialized(Map, k.index)
  /\ \A keys \in KeyArrays :
       /\ LET r == get_disjoint(Map, keys)
          IN  /\ r.ret # UB
              /\ r.ret # None =>
                   \A i \in DOMAIN r.ret[1] : Initialized(Map, r.ret[1][i])
       /\ LET r == get_disjoint_mut(Map, keys)
          IN  /\ r.ret # UB
              /\ r.ret # None =>
                   \A i \in DOMAIN r.ret[1] : Initialized(Map, r.ret[1][i])
  /\ \A i \in DOMAIN iter(Map) : Initialized(Map, iter(Map)[i].key.index)
  /\ \A i \in DOMAIN IterMut_collect(Map, 0) :
       Initialized(Map, IterMut_collect(Map, 0)[i].val)
  /\ \A n \in 0..MaxSlots :
       LET c == into_iter(Map, n)
       IN  /\ \A i \in DOMAIN c.yielded :
                Initialized(Map, c.yielded[i].key.index)
           /\ \A i \in DOMAIN c.dropped : Initialized(Map, c.dropped[i].key)

\* C30: for every map state and every key array get_disjoint and
\* get_disjoint_mut agree: both None or both Some, references into the
\* same slots, and the same map afterwards.
C30_SameProtocol ==
  \A keys \in KeyArrays :
    /\ get_disjoint(Map, keys).ret = get_disjoint_mut(Map, keys).ret
    /\ get_disjoint(Map, keys).map = get_disjoint_mut(Map, keys).map
    /\ get_disjoint_mark(Map, keys, 0, <<>>) =
         get_disjoint_mut_mark(Map, keys, 0, <<>>)

\* get_disjoint_mut handed out two references, as get_disjoint would have
C30_Witness ==
  /\ op = "get_disjoint_mut"
  /\ ret # None
  /\ Len(ret[1]) = 2
  /\ get_disjoint(Map, <<Key(0, inner[1].version), Key(1, inner[2].version)>>).ret
       # None

----------------------------------------------------------------------------
(* Structure of the map under insert and remove: C25, C27 - C29. *)

\* the generation of every slot but `except` is the same in m1 and m2
SameGenerations(m1, m2, except) ==
  \A p \in DOMAIN m1.inner :
    p # except => m2.inner[p].version.gen = m1.inner[p].version.gen

\* C25: after new() or with_capacity(n >= 1) and any inserts and removes,
\* the free links followed from the head stay inside the array, pass
\* through every slot whose occupied bit is clear exactly once and through
\* no occupied slot, and end at the sentinel 0.
C25_FreeList ==
  LET chain == FreeChain(Map)
  IN  /\ next_free <= Len(inner)
      /\ \A p \in DOMAIN inner : inner[p].next_free <= Len(inner)
      /\ \A i, j \in DOMAIN chain : i # j => chain[i] # chain[j]
      /\ {chain[i] + 1 : i \in DOMAIN chain} = DOMAIN inner \ Occupied
      /\ chain # <<>> => inner[chain[Len(chain)] + 1].next_free = 0

\* two of three slots were freed, the higher index first
C25_Witness ==
  /\ op = "remove"
  /\ ret # None
  /\ Len(inner) = 3
  /\ FreeChain(Map) = <<0, 1>>
  /\ inner[3].version.occ = 1

\* C27: below the wrap, the generation of every slot is the number of
\* removes that succeeded on it; a successful remove adds exactly 1 to the
\* generation of its slot and clears the occupied bit, and insert (also on
\* reuse), get_mut and a failed remove leave every generation as it is.
C27_GenerationHistory ==
  /\ \A p \in DOMAIN inner :
       inner[p].version.gen = Cardinality({k \in removed : k.index = p - 1})
  /\ \A k \in AllKeys :
       LET r == remove(Map, k)
       IN  IF IsValidKey(Map, k)
           THEN /\ r.map.inner[k.index + 1].version =
                     Word(0, k.version.gen + 1)
                /\ SameGenerations(Map, r.map, k.index + 1)
           ELSE SameGenerations(Map, r.map, 0)
  /\ \A v \in Values :
       /\ SameGenerations(Map, insert(Map, v).map, 0)
       /\ insert(Map, v).ret.version.occ = 1
       /\ \A k \in AllKeys : SameGenerations(Map, get_mut(Map, k, v).map, 0)

\* a slot removed once was reused and its key carries generation 1
C27_Witness ==
  /\ op = "insert"
  /\ ret.version = Word(1, 1)
  /\ Cardinality({k \in removed : k.index = ret.index}) = 1
  /\ \E p \in DOMAIN inner : inner[p].version.gen = 0

\* C28: insert grows the array exactly when the free-list head is 0: then
\* the array gets one slot longer and the key is (old array length,
\* generation 0 with the occupied bit); otherwise the array keeps its
\* length, the key has index head - 1 and the slot's generation with the
\* occupied bit, and the head becomes the link stored in that slot.  len
\* grows by 1 either way.
C28_InsertGrowth ==
  \A v \in Values :
    LET r == insert(Map, v)
    IN  /\ r.map.len = len + 1
        /\ (big_len(r.map) # big_len(Map)) <=> (next_free = 0)
        /\ IF next_free = 0
           THEN /\ big_len(r.map) = big_len(Map) + 1
                /\ r.ret = Key(Len(inner), SUROTTO_OCCUPIED)
           ELSE /\ big_len(r.map) = big_len(Map)
                /\ r.ret = Key(next_free - 1,
                               SetOccupied(inner[next_free].version))
                /\ r.map.next_free = inner[next_free].next_free

\* an insert reused a removed slot and left the head on another free slot
C28_Witness ==
  /\ op = "insert"
  /\ ret.version.gen = 1
  /\ next_free # 0
  /\ next_free # ret.index + 1

\* C29: len() is at most the array length in every state reached by
\* new/with_capacity, insert and remove, and no insert or remove makes the
\* array shorter.
C29_LenBound ==
  /\ len <= big_len(Map)
  /\ \A k \in AllKeys : big_len(remove(Map, k).map) = big_len(Map)
  /\ \A v \in Values : big_len(insert(Map, v).map) >= big_len(Map)

\* the last value was removed and the array still has its three slots
C29_Witness ==
  /\ op = "remove"
  /\ ret # None
  /\ len = 0
  /\ Len(inner) = 3
  /\ Cardinality(removed) >= 3

----------------------------------------------------------------------------
(* The projecting iterators (keys.rs, values.rs, values_mut.rs) and the
   teardown of the map. *)

\* next that yields a key for the slot at the cursor whether the slot is
\* occupied or not
Keys_next_unfiltered(m, pos) ==
  IF pos >= Len(m.inner) THEN Step(None, pos)
  ELSE Step(Some(Key(pos, m.inner[pos + 1].version)), pos + 1)

\* Keys::next
RECURSIVE Keys_next(_, _)
Keys_next(m, pos) ==
  IF pos >= Len(m.inner) THEN Step(None, pos)
  ELSE LET surotto == m.inner[pos + 1]
       IN  IF IsOccupied(surotto.version)
           THEN Step(Some(Key(pos, surotto.version)), pos + 1)
           ELSE Keys_next(m, pos + 1)

\* next that yields the value storage of the slot at the cursor whether the
\* slot is occupied or not
Values_next_unfiltered(m, pos) ==
  IF pos >= Len(m.inner) THEN Step(None, pos)
  ELSE Step(Some(m.inner[pos + 1].val), pos + 1)

\* Values::next
RECURSIVE Values_next(_, _)
Values_next(m, pos) ==
  IF pos >= Len(m.inner) THEN Step(None, pos)
  ELSE LET surotto == m.inner[pos + 1]
       IN  IF IsOccupied(surotto.version)
           THEN Step(Some(surotto.val), pos + 1)
           ELSE Values_next(m, pos + 1)

\* ValuesMut::next: the item is the position of the slot its `&mut T`
\* points into
RECURSIVE ValuesMut_next(_, _)
ValuesMut_next(m, pos) ==
  IF pos >= Len(m.inner) THEN Step(None, pos)
  ELSE LET surotto == m.inner[pos + 1]
       IN  IF IsOccupied(surotto.version)
           THEN Step(Some(pos), pos + 1)
           ELSE ValuesMut_next(m, pos + 1)

RECURSIVE Keys_collect(_, _)
Keys_collect(m, pos) ==
  LET s == Keys_next(m, pos)
  IN  IF s.item = None THEN <<>>
      ELSE <<s.item[1]>> \o Keys_collect(m, s.pos)

keys(m) == Keys_collect(m, 0)

RECURSIVE Values_collect(_, _)
Values_collect(m, pos) ==
  LET s == Values_next(m, pos)
  IN  IF s.item = None THEN <<>>
      ELSE <<s.item[1]>> \o Values_collect(m, s.pos)

values(m) == Values_collect(m, 0)

RECURSIVE ValuesMut_collect(_, _)
ValuesMut_collect(m, pos) ==
  LET s == ValuesMut_next(m, pos)
  IN  IF s.item = None THEN <<>>
      ELSE <<s.item[1]>> \o ValuesMut_collect(m, s.pos)

\* m.values_mut() taken to its end, the caller writing v through the j-th
\* reference (j = 0: no write)
values_mut(m, j, v) ==
  LET items == ValuesMut_collect(m, 0)
  IN  [map |-> IF j \in DOMAIN items
               THEN [m EXCEPT !.inner[items[j] + 1].val = v]
               ELSE m,
       ret |-> items]

\* dropping the map drops its Vec, which drops every slot in order
SurottoMap_drop(m) == IntoIter_drop(m, 0)

KeysIter ==
  /\ Alive
  /\ Called("keys", keys(Map))
  /\ UNCHANGED <<inner, next_free, len, issued, removed, stored, freed>>
  /\ UNCHANGED simpleVars

ValuesIter ==
  /\ Alive
  /\ Called("values", values(Map))
  /\ UNCHANGED <<inner, next_free, len, issued, removed, stored, freed>>
  /\ UNCHANGED simpleVars

ValuesMutIter ==
  /\ Alive
  /\ \E j \in 0..MaxSlots, v \in Values :
       LET r == values_mut(Map, j, v)
       IN  /\ SetMap(r.map)
           /\ Called("values_mut", r.ret)
           /\ stored' = IF j \in DOMAIN r.ret
                        THEN [stored EXCEPT ![r.ret[j]] = v]
                        ELSE stored
  /\ UNCHANGED <<issued, removed, freed, simpleVars>>

\* the traversals over every state the map can be in, those left by the
\* disjoint borrows included
NextTraverse ==
  \/ Alive /\ Insert
  \/ Alive /\ Remove
  \/ Alive /\ GetDisjoint
  \/ Iter
  \/ IterMut
  \/ KeysIter
  \/ ValuesIter
  \/ ValuesMutIter
  \/ IntoIter

SpecTraverse == Init /\ [][NextTraverse]_vars

\* the keys insert has issued and remove has not taken back
LiveKeys == issued \ removed

\* C31: every key yielded by iter, iter_mut, keys or into_iter is the key
\* insert issued for the value the slot holds now: it is valid on the
\* iterated map, and get with it returns the value yielded beside it.
C31_YieldedKeys ==
  /\ \A i \in DOMAIN iter(Map) :
       LET it == iter(Map)[i]
       IN  /\ it.key \in LiveKeys
           /\ validate_key(Map, it.key)
           /\ get(Map, it.key) = Some(it.val)
  /\ \A i \in DOMAIN IterMut_collect(Map, 0) :
       LET it == IterMut_collect(Map, 0)[i]
       IN  /\ it.key \in LiveKeys
           /\ validate_key(Map, it.key)
           /\ it.val = it.key.index
  /\ \A i \in DOMAIN keys(Map) :
       /\ keys(Map)[i] \in LiveKeys
       /\ validate_key(Map, keys(Map)[i])
  /\ \A n \in 0..MaxSlots :
       \A i \in DOMAIN into_iter(Map, n).yielded :
         LET it == into_iter(Map, n).yielded[i]
         IN  /\ it.key \in LiveKeys
             /\ get(Map, it.key) = Some(it.val)

\* keys() ran over a map in which a removed slot holds a value again, and
\* yielded that slot's key of the new generation
C31_Witness ==
  /\ op = "keys"
  /\ Len(ret) = 2
  /\ ret[2].version = Word(1, 1)
  /\ \E k \in removed : k.index = ret[2].index
  /\ get(Map, ret[2]) # None

\* C32: in every map state keys() yields the keys of iter() and values()
\* the values of iter(), item by item in the same order, and values_mut()
\* yields the references of iter_mut(); a write through the j-th reference
\* of values_mut() lands where the write through the j-th of iter_mut() does.
C32_Projections ==
  /\ keys(Map) = [i \in DOMAIN iter(Map) |-> iter(Map)[i].key]
  /\ values(Map) = [i \in DOMAIN iter(Map) |-> iter(Map)[i].val]
  /\ \A j \in 0..MaxSlots, v \in Values :
       /\ values_mut(Map, j, v).ret =
            [i \in DOMAIN iter_mut(Map, j, v).ret |->
               iter_mut(Map, j, v).ret[i].val]
       /\ values_mut(Map, j, v).map = iter_mut(Map, j, v).map

\* values() ran over three slots of which the first is free
C32_Witness ==
  /\ op = "values"
  /\ Len(inner) = 3
  /\ inner[1].version.occ = 0
  /\ Len(ret) = 2
  /\ ret = <<inner[2].val, inner[3].val>>

----------------------------------------------------------------------------
(* Frame of the single-key operations, and bounds of the disjoint walk. *)

\* C33: insert leaves get(k) unchanged for every key k valid before it;
\* remove(k) with valid k leaves get(k2) unchanged for every valid k2 # k;
\* a write through get_mut(k) changes only what get(k) returns, and leaves
\* len and the answer of get for every other key unchanged.
C33_Frame ==
  \A k \in AllKeys :
    validate_key(Map, k) =>
      /\ \A v \in Values : get(insert(Map, v).map, k) = get(Map, k)
      /\ \A k2 \in AllKeys :
           (k2 # k /\ validate_key(Map, k2)) =>
             get(remove(Map, k).map, k2) = get(Map, k2)
      /\ \A v \in Values :
           LET after == get_mut(Map, k, v).map
           IN  /\ get(after, k) = Some(v)
               /\ after.len = len
               /\ \A k2 \in AllKeys :
                    k2 # k => get(after, k2) = get(Map, k2)

\* get_mut wrote a value through the key of the second slot while the first
\* slot keeps a different value under its own key
C33_Witness ==
  /\ op = "get_mut"
  /\ ret = Some(1)
  /\ len >= 2
  /\ IsOccupied(inner[1].version)
  /\ IsOccupied(inner[2].version)
  /\ inner[1].val # inner[2].val

\* C34: in every reachable map state and for every key array, whatever its
\* length, each slot index that get_disjoint or get_disjoint_mut accesses
\* without a bounds check lies below the length of the slot array: the
\* index i of the marking loop and the index k.index of the restore loop.
C34_WalkInBounds ==
  \A ks \in KeyArrays :
    LET w  == get_disjoint_mark(Map, ks, 0, <<>>)
        wm == get_disjoint_mut_mark(Map, ks, 0, <<>>)
    IN  /\ ~w.oob
        /\ ~wm.oob
        /\ \A r \in 1..Len(w.refs) : w.refs[r] < Len(inner)
        /\ \A r \in 1..Len(wm.refs) : wm.refs[r] < Len(inner)
        /\ \A j \in 1..w.undo_idx : ks[j].index < Len(inner)
        /\ \A j \in 1..wm.undo_idx : ks[j].index < Len(inner)
        /\ get_disjoint(Map, ks).ret # UB
        /\ get_disjoint_mut(Map, ks).ret # UB

\* a disjoint borrow ran on a map of one slot, where an array of two ks
\* that names the slot twice stops the walk at its second position
C34_Witness ==
  /\ op \in {"get_disjoint", "get_disjoint_mut"}
  /\ Len(inner) = 1
  /\ ret = None
  /\ \E ks \in KeyArrays :
       /\ Len(ks) = 2
       /\ ks[1] = ks[2]
       /\ get_disjoint_mark(Map, ks, 0, <<>>).undo_idx = 1
       /\ get_disjoint_mark(Map, ks, 0, <<>>).refs = <<0>>

----------------------------------------------------------------------------
(* Teardown of the map. *)

\* how often dropping the map m runs the destructor of the value in slot q
Destructions(m, q) ==
  Cardinality({i \in DOMAIN SurottoMap_drop(m) :
                 SurottoMap_drop(m)[i].key = q})

\* C35: after any sequence of insert, remove, get_disjoint and
\* get_disjoint_mut, dropping the map destructs every value that was
\* inserted and not handed back by remove exactly once, and no other
\* storage; a remove that hands a value back hands back the one stored,
\* and the teardown of the map it leaves does not destruct that slot
\* again: no value is destructed twice and none is leaked.
C35_DropOnce ==
  /\ \A q \in 0..(MaxSlots - 1) :
       Destructions(Map, q) = IF stored[q] # Uninit THEN 1 ELSE 0
  /\ \A i \in DOMAIN SurottoMap_drop(Map) :
       SurottoMap_drop(Map)[i].val = stored[SurottoMap_drop(Map)[i].key]
  /\ \A k \in AllKeys :
       LET r == remove(Map, k)
       IN  r.ret # None =>
             /\ r.ret = Some(stored[k.index])
             /\ Destructions(r.map, k.index) = 0
             /\ \A q \in 0..(MaxSlots - 1) :
                  q # k.index => Destructions(r.map, q) = Destructions(Map, q)

=============================================================================
